---- MODULE Spec2Model ----
(***************************************************************************)
(* Ingestion decision and execution engine of mcp_server_korean_traffic:   *)
(* the orchestrator tick (time policy, interval gate, budget gate), the    *)
(* snapshot runner with its per-page transactions, the call ledger and the *)
(* raw content table.                                                      *)
(*                                                                         *)
(* Instants are whole seconds counted from 00:00:00 Asia/Seoul of the      *)
(* first modelled day.  The durable store is `store`; `conn` is what the   *)
(* one shared connection sees, i.e. the store plus the writes of the open  *)
(* transaction.  commit copies conn into store, rollback copies store into *)
(* conn.                                                                   *)
(***************************************************************************)
EXTENDS Integers, Sequences, FiniteSets, TLC

VARIABLES clock_now, store, conn, prior_success, calls_made, faults, pc, tick, run, cur,
          hist, result, call

vars == <<clock_now, store, conn, prior_success, calls_made, faults, pc, tick, run, cur,
          hist, result, call>>

----------------------------------------------------------------------------
(* Bounds of the model *)

MaxFetches == 4
MaxFaults == 2
MaxRows == 1

(* Program constants *)

DAILY_LIMIT == 1000
REQUIRED_CALLS == 4
COMMUTE_INTERVAL_SECONDS == 120
NORMAL_INTERVAL_SECONDS == 900
TOTAL_COUNT_THRESHOLD == 3000

None == -1
DaySeconds == 86400

(* The instants the injected clock passes through, in order. *)
Instants == << 18000,           \* day 0 05:00:00  night, last second
               34080,           \* day 0 09:28:00  morning
               34199,           \* day 0 09:29:59  morning
               34200,           \* day 0 09:30:00  morning, last second
               35099,           \* day 0 09:44:59  normal
               35100,           \* day 0 09:45:00  normal
               86399,           \* day 0 23:59:59  normal
               88199,           \* day 1 00:29:59  normal
               88200 >>         \* day 1 00:30:00  night, first second

InstantSet == {Instants[i] : i \in 1..Len(Instants)}

(* Success entries already in the ledger for day 0 when the model starts,  *)
(* written by snapshots older than every modelled instant.                 *)
PriorSuccessChoices == {DAILY_LIMIT - REQUIRED_CALLS, DAILY_LIMIT - REQUIRED_CALLS + 1}

(* Total counts the first page may report (None: field absent). *)
TotalCounts == {None, TOTAL_COUNT_THRESHOLD, TOTAL_COUNT_THRESHOLD + 1}

(* The zone of the now main passes: its clock is datetime.now(seoul_tz). *)
NowZones == {"Asia/Seoul"}

(* call_ranges arguments a caller passes: omitted, or an explicit list. *)
RangeInputs == { [is_none |-> TRUE,  list |-> <<>>],
                 [is_none |-> FALSE, list |-> <<>>],
                 [is_none |-> FALSE, list |-> << <<0, 999>>, <<1000, 1999>> >>] }

----------------------------------------------------------------------------
(* Calendar helpers: datetime.date(), strftime *)

DateOf(t) == t \div DaySeconds

TimeOfDay(t) == t % DaySeconds

(* The identifier cut off at the minute. *)
FormatSnapshotId_no_seconds(t) ==
    LET tod == TimeOfDay(t)
    IN  DateOf(t) * 1000000 + (tod \div 3600) * 10000
          + ((tod % 3600) \div 60) * 100

(* now.strftime("%Y%m%d_%H%M%S"), read as the decimal number it spells. *)
FormatSnapshotId(t) ==
    LET tod == TimeOfDay(t)
    IN  DateOf(t) * 1000000 + (tod \div 3600) * 10000
          + ((tod % 3600) \div 60) * 100 + (tod % 60)

----------------------------------------------------------------------------
(* TimePolicy: ingestion/scheduler.py *)

(* The commute windows without their last second. *)
decide_collection_exclusive_ends(now) ==
    LET time_seconds == TimeOfDay(now)
        next_same_day == DateOf(now) * DaySeconds + 5 * 3600 + 1
        next_collect_time == IF now >= next_same_day
                             THEN next_same_day + DaySeconds
                             ELSE next_same_day
    IN  IF 30 * 60 <= time_seconds /\ time_seconds <= 5 * 3600
        THEN [should_collect |-> FALSE,
              interval_seconds |-> next_collect_time - now,
              time_bucket |-> "night"]
        ELSE IF 7 * 3600 <= time_seconds /\ time_seconds < 9 * 3600 + 30 * 60
        THEN [should_collect |-> TRUE,
              interval_seconds |-> COMMUTE_INTERVAL_SECONDS,
              time_bucket |-> "morning"]
        ELSE IF 17 * 3600 + 30 * 60 <= time_seconds /\ time_seconds < 20 * 3600
        THEN [should_collect |-> TRUE,
              interval_seconds |-> COMMUTE_INTERVAL_SECONDS,
              time_bucket |-> "evening"]
        ELSE [should_collect |-> TRUE,
              interval_seconds |-> NORMAL_INTERVAL_SECONDS,
              time_bucket |-> "normal"]

(* The night window starting at midnight and lasting one second longer. *)
decide_collection_wider_night(now) ==
    LET time_seconds == TimeOfDay(now)
        next_same_day == DateOf(now) * DaySeconds + 5 * 3600 + 1
        next_collect_time == IF now >= next_same_day
                             THEN next_same_day + DaySeconds
                             ELSE next_same_day
    IN  IF time_seconds <= 5 * 3600 + 1
        THEN [should_collect |-> FALSE,
              interval_seconds |-> next_collect_time - now,
              time_bucket |-> "night"]
        ELSE IF 7 * 3600 <= time_seconds /\ time_seconds <= 9 * 3600 + 30 * 60
        THEN [should_collect |-> TRUE,
              interval_seconds |-> COMMUTE_INTERVAL_SECONDS,
              time_bucket |-> "morning"]
        ELSE IF 17 * 3600 + 30 * 60 <= time_seconds /\ time_seconds <= 20 * 3600
        THEN [should_collect |-> TRUE,
              interval_seconds |-> COMMUTE_INTERVAL_SECONDS,
              time_bucket |-> "evening"]
        ELSE [should_collect |-> TRUE,
              interval_seconds |-> NORMAL_INTERVAL_SECONDS,
              time_bucket |-> "normal"]

(* On a whole second of Asia/Seoul: lines 49-116. *)
decide_collection(now) ==
    LET time_seconds  == TimeOfDay(now)
        morning_start == 7 * 3600
        morning_end   == 9 * 3600 + 30 * 60
        evening_start == 17 * 3600 + 30 * 60
        evening_end   == 20 * 3600
        night_start   == 30 * 60
        night_end     == 5 * 3600
        next_same_day == DateOf(now) * DaySeconds + 5 * 3600 + 1
        next_collect_time == IF now >= next_same_day
                             THEN next_same_day + DaySeconds
                             ELSE next_same_day
    IN  IF night_start <= time_seconds /\ time_seconds <= night_end
        THEN [should_collect |-> FALSE,
              interval_seconds |-> next_collect_time - now,
              time_bucket |-> "night"]
        ELSE IF morning_start <= time_seconds /\ time_seconds <= morning_end
        THEN [should_collect |-> TRUE,
              interval_seconds |-> COMMUTE_INTERVAL_SECONDS,
              time_bucket |-> "morning"]
        ELSE IF evening_start <= time_seconds /\ time_seconds <= evening_end
        THEN [should_collect |-> TRUE,
              interval_seconds |-> COMMUTE_INTERVAL_SECONDS,
              time_bucket |-> "evening"]
        ELSE [should_collect |-> TRUE,
              interval_seconds |-> NORMAL_INTERVAL_SECONDS,
              time_bucket |-> "normal"]

(* A datetime value: the wall-clock second it shows, counted from day 0    *)
(* 00:00:00 of its own zone, its microsecond, and its zone ("naive" when   *)
(* tzinfo is None).                                                        *)
UtcOffset(tz) == IF tz = "Asia/Seoul" THEN 9 * 3600 ELSE 0

(* now.astimezone(seoul_tz), line 46 *)
astimezone_seoul(now) ==
    [wall |-> now.wall - UtcOffset(now.tz) + UtcOffset("Asia/Seoul"),
     micro |-> now.micro,
     tz |-> "Asia/Seoul"]

(* int(timedelta.total_seconds()) of a positive difference of whole_seconds *)
(* between the seconds shown, the earlier value micro microseconds into its *)
(* second: the fraction is cut off.                                        *)
int_total_seconds(whole_seconds, micro) ==
    IF micro > 0 THEN whole_seconds - 1 ELSE whole_seconds

NoDecision == [raised |-> TRUE, should_collect |-> FALSE, interval_seconds |-> None, time_bucket |-> "none"]

(* decide_collection taking a zone-naive now for a Seoul time. *)
decide_collection_datetime_assumes_seoul(now) ==
    LET now_seoul == IF now.tz = "naive" THEN now ELSE astimezone_seoul(now)
        d == decide_collection(now_seoul.wall)
    IN  [raised |-> FALSE,
         should_collect |-> d.should_collect,
         interval_seconds |-> IF d.time_bucket = "night"
                              THEN int_total_seconds(d.interval_seconds, now_seoul.micro)
                              ELSE d.interval_seconds,
         time_bucket |-> d.time_bucket]

(* decide_collection on a datetime: lines 44-45 raise ValueError for a     *)
(* zone-naive now, line 46 converts to Asia/Seoul, lines 49-51 read hour,  *)
(* minute and second, line 79 cuts the night interval to an int.           *)
decide_collection_datetime(now) ==
    IF now.tz = "naive"
    THEN NoDecision
    ELSE LET now_seoul == astimezone_seoul(now)
             d == decide_collection(now_seoul.wall)
         IN  [raised |-> FALSE,
              should_collect |-> d.should_collect,
              interval_seconds |-> IF d.time_bucket = "night"
                                   THEN int_total_seconds(d.interval_seconds, now_seoul.micro)
                                   ELSE d.interval_seconds,
              time_bucket |-> d.time_bucket]

(* BudgetGuard: ingestion/budget.py *)

(* check_budget letting a run through with one call too few remaining. *)
check_budget_off_by_one(today, used_calls_today, required_calls, daily_limit) ==
    LET diff == daily_limit - used_calls_today
        remaining_calls == IF diff < 0 THEN 0 ELSE diff
    IN  IF remaining_calls + 1 >= required_calls
        THEN [should_collect |-> TRUE,
              remaining_calls |-> remaining_calls,
              reason |-> "budget_ok"]
        ELSE [should_collect |-> FALSE,
              remaining_calls |-> remaining_calls,
              reason |-> "budget_exceeded"]

(* check_budget letting a run through as soon as one call remains. *)
check_budget_one_call_suffices(today, used_calls_today, required_calls, daily_limit) ==
    LET diff == daily_limit - used_calls_today
        remaining_calls == IF diff < 0 THEN 0 ELSE diff
    IN  IF remaining_calls >= 1
        THEN [should_collect |-> TRUE,
              remaining_calls |-> remaining_calls,
              reason |-> "budget_ok"]
        ELSE [should_collect |-> FALSE,
              remaining_calls |-> remaining_calls,
              reason |-> "budget_exceeded"]

(* check_budget reporting the difference as it is, below zero included. *)
check_budget_negative_remaining(today, used_calls_today, required_calls, daily_limit) ==
    LET remaining_calls == daily_limit - used_calls_today
    IN  IF remaining_calls >= required_calls
        THEN [should_collect |-> TRUE,
              remaining_calls |-> remaining_calls,
              reason |-> "budget_ok"]
        ELSE [should_collect |-> FALSE,
              remaining_calls |-> remaining_calls,
              reason |-> "budget_exceeded"]

check_budget(today, used_calls_today, required_calls, daily_limit) ==
    LET diff == daily_limit - used_calls_today
        remaining_calls == IF diff < 0 THEN 0 ELSE diff
    IN  IF remaining_calls >= required_calls
        THEN [should_collect |-> TRUE,
              remaining_calls |-> remaining_calls,
              reason |-> "budget_ok"]
        ELSE [should_collect |-> FALSE,
              remaining_calls |-> remaining_calls,
              reason |-> "budget_exceeded"]

----------------------------------------------------------------------------
(* CallLedger: table subway_api_call_log, one record per                   *)
(* (snapshot_id, page_start, page_end).                                    *)

SameKey(e, snapshot_id, page_start, page_end) ==
    /\ e.snapshot_id = snapshot_id
    /\ e.page_start = page_start
    /\ e.page_end = page_end

(* The insert on a table without the unique key. *)
insert_call_log_without_unique_key(ledger, snapshot_id, page_start, page_end, called_at, status) ==
    ledger \cup {[call_date |-> DateOf(called_at),
                  snapshot_id |-> snapshot_id,
                  page_start |-> page_start,
                  page_end |-> page_end,
                  called_at |-> called_at,
                  status |-> status]}

(* INSERT ... ON DUPLICATE KEY UPDATE status, called_at *)
insert_call_log(ledger, snapshot_id, page_start, page_end, called_at, status) ==
    LET call_date == DateOf(called_at)
        old == {e \in ledger : SameKey(e, snapshot_id, page_start, page_end)}
    IN  IF old = {}
        THEN ledger \cup {[call_date |-> call_date,
                           snapshot_id |-> snapshot_id,
                           page_start |-> page_start,
                           page_end |-> page_end,
                           called_at |-> called_at,
                           status |-> status]}
        ELSE (ledger \ old)
               \cup {[e EXCEPT !.status = status, !.called_at = called_at] : e \in old}

(* The count without the test of the status. *)
get_used_calls_today_counts_errors(ledger, prior, today) ==
    Cardinality({e \in ledger : e.call_date = DateOf(today)})
      + (IF DateOf(today) = 0 THEN prior ELSE 0)

(* SELECT COUNT ... WHERE call_date = today AND status = 'success';     *)
(* prior counts the rows of snapshots older than the modelled instants,    *)
(* all of them of day 0.                                                   *)
get_used_calls_today(ledger, prior, today) ==
    Cardinality({e \in ledger : e.call_date = DateOf(today) /\ e.status = "success"})
      + (IF DateOf(today) = 0 THEN prior ELSE 0)

----------------------------------------------------------------------------
(* ContentIngester: table subway_arrival_raw *)

(* A payload is a dict of string keys and string values, given as the      *)
(* sequence of its items in insertion order; a key is written as its rank  *)
(* in the order of strings, a value as a number naming the string.         *)
RECURSIVE sorted_items(_)
sorted_items(items) ==
    IF items = <<>> THEN <<>>
    ELSE LET least == CHOOSE i \in 1..Len(items) :
                          \A j \in 1..Len(items) : items[i].key <= items[j].key
             rest  == [k \in 1..(Len(items) - 1) |->
                          IF k < least THEN items[k] ELSE items[k + 1]]
         IN  <<items[least]>> \o sorted_items(rest)

(* json.dumps(..., separators=(",", ":")): key and value of every item, in *)
(* the order of the dict.                                                  *)
RECURSIVE json_dumps(_)
json_dumps(items) ==
    IF items = <<>> THEN <<>>
    ELSE <<Head(items).key, Head(items).value>> \o json_dumps(Tail(items))

(* The number a text spells, no two texts the same number. *)
RECURSIVE TextCode(_)
TextCode(text) ==
    IF text = <<>> THEN 0
    ELSE TextCode(SubSeq(text, 1, Len(text) - 1)) * 4 + text[Len(text)]

HexLength == 64

(* hashlib.sha256(...).hexdigest(): 64 characters 0-9a-f, written as the   *)
(* numbers 0..15.  The digest is taken to be free of collisions: it spells *)
(* the code of the text it was made from.                                  *)
sha256_hexdigest(text) ==
    [i \in 1..HexLength |->
        IF HexLength - i > 6 THEN 0
        ELSE (TextCode(text) \div (16 ^ (HexLength - i))) % 16]

(* The hash of the payload as it came, without sorting its keys. *)
compute_payload_hash_unsorted(raw_payload) ==
    sha256_hexdigest(json_dumps(raw_payload))

(* Lines 28-35: sort the items by key, serialise, digest. *)
compute_payload_hash(raw_payload) ==
    LET sorted_payload == sorted_items(raw_payload)
        json_str       == json_dumps(sorted_payload)
    IN  sha256_hexdigest(json_str)

(* Rows of one snapshot and page range with the same content collide. *)
RawSameKey(r, snapshot_id, page_start, page_end, payload) ==
    /\ r.snapshot_id = snapshot_id
    /\ r.page_start = page_start
    /\ r.page_end = page_end
    /\ r.payload = payload

(* The bulk insert on a table without the unique key: every row counts as  *)
(* inserted.                                                               *)
ingest_rows_page_without_unique_key(raw, snapshot_id, collected_at, page_start, page_end, rows, created_at) ==
    [raw |-> raw \cup {[snapshot_id |-> snapshot_id,
                        collected_at |-> collected_at,
                        page_start |-> page_start,
                        page_end |-> page_end,
                        payload |-> k,
                        created_at |-> created_at] : k \in 1..rows},
     attempted_rows |-> rows,
     inserted_rows |-> rows,
     skipped_duplicates |-> 0]

(* rows is the number of records of the page; record k has content k.      *)
(* created_at is the column default, the instant of the insert.            *)
ingest_rows_page(raw, snapshot_id, collected_at, page_start, page_end, rows, created_at) ==
    LET fresh == {k \in 1..rows :
                    \A r \in raw : ~RawSameKey(r, snapshot_id, page_start, page_end, k)}
        inserted_rows == Cardinality(fresh)
    IN  IF rows = 0
        THEN [raw |-> raw, attempted_rows |-> 0, inserted_rows |-> 0,
              skipped_duplicates |-> 0]
        ELSE [raw |-> raw \cup {[snapshot_id |-> snapshot_id,
                                 collected_at |-> collected_at,
                                 page_start |-> page_start,
                                 page_end |-> page_end,
                                 payload |-> k,
                                 created_at |-> created_at] : k \in fresh},
              attempted_rows |-> rows,
              inserted_rows |-> inserted_rows,
              skipped_duplicates |-> rows - inserted_rows]

(* SELECT MAX(created_at) FROM subway_arrival_raw *)
get_last_snapshot_at(raw) ==
    IF raw = {} THEN None
    ELSE CHOOSE t \in {r.created_at : r \in raw} :
             \A r \in raw : r.created_at <= t

----------------------------------------------------------------------------
(* Orchestrator results: ingestion/orchestrator.py *)

BlockedResult(reason, last_snapshot_at, interval_seconds, elapsed_seconds) ==
    [executed |-> FALSE,
     reason |-> reason,
     snapshot_id |-> None,
     last_snapshot_at |-> last_snapshot_at,
     interval_seconds |-> interval_seconds,
     elapsed_seconds |-> elapsed_seconds,
     has_runner_fields |-> FALSE,
     total_count |-> None,
     decided_page_count |-> None]

(* The executed result carrying the executed flag of the blocked returns. *)
ExecutedResult_flag_false(snapshot_id, last_snapshot_at, interval_seconds, elapsed_seconds, total_count, decided_page_count) ==
    [executed |-> FALSE,
     reason |-> "executed",
     snapshot_id |-> snapshot_id,
     last_snapshot_at |-> last_snapshot_at,
     interval_seconds |-> interval_seconds,
     elapsed_seconds |-> elapsed_seconds,
     has_runner_fields |-> TRUE,
     total_count |-> total_count,
     decided_page_count |-> decided_page_count]

(* The executed result without what the runner reported. *)
ExecutedResult_drops_runner_fields(snapshot_id, last_snapshot_at, interval_seconds, elapsed_seconds, total_count, decided_page_count) ==
    [executed |-> TRUE,
     reason |-> "executed",
     snapshot_id |-> snapshot_id,
     last_snapshot_at |-> last_snapshot_at,
     interval_seconds |-> interval_seconds,
     elapsed_seconds |-> elapsed_seconds,
     has_runner_fields |-> TRUE,
     total_count |-> None,
     decided_page_count |-> None]

ExecutedResult(snapshot_id, last_snapshot_at, interval_seconds, elapsed_seconds, total_count, decided_page_count) ==
    [executed |-> TRUE,
     reason |-> "executed",
     snapshot_id |-> snapshot_id,
     last_snapshot_at |-> last_snapshot_at,
     interval_seconds |-> interval_seconds,
     elapsed_seconds |-> elapsed_seconds,
     has_runner_fields |-> TRUE,
     total_count |-> total_count,
     decided_page_count |-> decided_page_count]

(* The keys of the dict a tick returns: lines 86-93, 111-124, 137-148 for  *)
(* a blocked tick, lines 169-178 for an executed one.                      *)
ResultKeys(r) ==
    {"executed", "reason", "snapshot_id", "last_snapshot_at", "interval_seconds",
     "elapsed_seconds"}
      \cup (IF r.has_runner_fields THEN {"total_count", "decided_page_count"} ELSE {})

(* The gate chain with the budget gate moved in front of the interval gate. *)
OrchestratorGates_budget_first(now, last_snapshot_at, used_calls_today) ==
    LET time_policy == decide_collection(now)
        interval_seconds == time_policy.interval_seconds
        elapsed_seconds == IF last_snapshot_at # None
                           THEN now - last_snapshot_at ELSE None
        budget == check_budget(DateOf(now), used_calls_today,
                               REQUIRED_CALLS, DAILY_LIMIT)
    IN  IF ~time_policy.should_collect
        THEN BlockedResult("time_policy_blocked", None, None, None)
        ELSE IF ~budget.should_collect
        THEN BlockedResult("budget_blocked", last_snapshot_at,
                           interval_seconds, elapsed_seconds)
        ELSE IF last_snapshot_at # None /\ elapsed_seconds < interval_seconds
        THEN BlockedResult("interval_not_elapsed", last_snapshot_at,
                           interval_seconds, elapsed_seconds)
        ELSE ExecutedResult(FormatSnapshotId(now), last_snapshot_at,
                            interval_seconds, elapsed_seconds, None, None)

(* The gate chain with the interval gate also blocking at elapsed equal to *)
(* the interval.                                                           *)
OrchestratorGates_inclusive_interval(now, last_snapshot_at, used_calls_today) ==
    LET time_policy == decide_collection(now)
        interval_seconds == time_policy.interval_seconds
        elapsed_seconds == IF last_snapshot_at # None
                           THEN now - last_snapshot_at ELSE None
        budget == check_budget(DateOf(now), used_calls_today,
                               REQUIRED_CALLS, DAILY_LIMIT)
    IN  IF ~time_policy.should_collect
        THEN BlockedResult("time_policy_blocked", None, None, None)
        ELSE IF last_snapshot_at # None /\ elapsed_seconds <= interval_seconds
        THEN BlockedResult("interval_not_elapsed", last_snapshot_at,
                           interval_seconds, elapsed_seconds)
        ELSE IF ~budget.should_collect
        THEN BlockedResult("budget_blocked", last_snapshot_at,
                           interval_seconds, elapsed_seconds)
        ELSE ExecutedResult(FormatSnapshotId(now), last_snapshot_at,
                            interval_seconds, elapsed_seconds, None, None)

(* The gate chain of run_orchestrator_once up to the call of the runner:   *)
(* the blocked result of the first failing gate, or the executed result    *)
(* still without the runner's fields.  last_snapshot_at is None when the   *)
(* lookup found nothing; the stored value is Asia/Seoul wall time, so      *)
(* localize and astimezone leave the instant as it is.                     *)
OrchestratorGates(now, last_snapshot_at, used_calls_today) ==
    LET time_policy == decide_collection(now)
        interval_seconds == time_policy.interval_seconds
        elapsed_seconds == IF last_snapshot_at # None
                           THEN now - last_snapshot_at ELSE None
        budget == check_budget(DateOf(now), used_calls_today,
                               REQUIRED_CALLS, DAILY_LIMIT)
    IN  IF ~time_policy.should_collect
        THEN BlockedResult("time_policy_blocked", None, None, None)
        ELSE IF last_snapshot_at # None /\ elapsed_seconds < interval_seconds
        THEN BlockedResult("interval_not_elapsed", last_snapshot_at,
                           interval_seconds, elapsed_seconds)
        ELSE IF ~budget.should_collect
        THEN BlockedResult("budget_blocked", last_snapshot_at,
                           interval_seconds, elapsed_seconds)
        ELSE ExecutedResult(FormatSnapshotId(now), last_snapshot_at,
                            interval_seconds, elapsed_seconds, None, None)

----------------------------------------------------------------------------
(* State *)

NoResult == BlockedResult("none", None, None, None)

NoPage == [start |-> None, end |-> None, status |-> "ok", attempted_rows |-> 0,
           inserted_rows |-> 0, skipped_duplicates |-> 0, error |-> "None"]

NoSnapshotResult ==
    [snapshot_id |-> None, ranges |-> <<>>, pages |-> <<>>,
     attempted_total |-> 0, inserted_total |-> 0, duplicates_total |-> 0,
     errors_total |-> 0, status |-> "none", total_count |-> None,
     decided_page_count |-> None]

NoRun == [snapshot_id |-> None, snapshot_collected_at |-> None,
          arg_is_none |-> FALSE, call_ranges_is_none |-> FALSE,
          call_ranges |-> <<>>, remaining_ranges |-> <<>>,
          probing |-> FALSE, idx |-> 1,
          total_count |-> None, decided_page_count |-> None,
          pages_result |-> <<>>, page_result |-> NoPage,
          snapshot_result |-> NoSnapshotResult, log_data |-> {}]

NoCur == [start |-> None, end |-> None, rows |-> 0, error |-> "None",
          inserted_rows |-> 0, skipped_duplicates |-> 0, log_failed |-> FALSE]

NoTick == [now |-> None, now_tz |-> "none", arg_is_none |-> FALSE, arg_list |-> <<>>,
           used_calls_today |-> 0, last_snapshot_at |-> None]

EmptyStore == [ledger |-> {}, raw |-> {}]

(* The last call of one of the components made on its own, outside a tick: *)
(* the function called, its arguments, whether it raised, what it returned. *)
NoCall == [op |-> "none", args |-> [none |-> TRUE], raised |-> FALSE, ret |-> [none |-> TRUE]]

(* What the tick in progress has done so far: the store as the tick and    *)
(* as the page in flight found it, the fetches made, the calls of commit,  *)
(* rollback and run_snapshot_once, the total the first page of a dynamic   *)
(* run reported, and whether a later page reported a total above the       *)
(* threshold.                                                              *)
NewHist(s) == [store_at_tick |-> s, store_at_page |-> s, fetches |-> <<>>, commit_calls |-> 0,
               commits_done |-> 0, rollback_calls |-> 0, runner_calls |-> 0,
               probe_total |-> None, late_total_over |-> FALSE]

Init ==
    /\ clock_now = Instants[1]
    /\ store = EmptyStore
    /\ conn = EmptyStore
    /\ prior_success \in PriorSuccessChoices
    /\ calls_made = 0
    /\ faults = 0
    /\ pc = "idle"
    /\ tick = NoTick
    /\ run = NoRun
    /\ cur = NoCur
    /\ hist = NewHist(EmptyStore)
    /\ result = NoResult
    /\ call = NoCall

(* The injected clock moves on to its next instant between two ticks; of   *)
(* the time that passes while a remote call is outstanding the model       *)
(* follows the passage of midnight.                                        *)
AdvanceClock ==
    /\ pc \in {"idle", "fetch"}
    /\ \E i \in 1..(Len(Instants) - 1) :
          /\ clock_now = Instants[i]
          /\ pc = "fetch" => DateOf(Instants[i + 1]) # DateOf(clock_now)
          /\ clock_now' = Instants[i + 1]
    /\ UNCHANGED <<call, store, conn, prior_success, calls_made, faults, pc, tick, run, cur, hist, result>>

----------------------------------------------------------------------------
(* Orchestrator tick: scripts/step7_run_orchestrator_once.py main and      *)
(* ingestion/orchestrator.py run_orchestrator_once                         *)

(* The supplied ranges taken from the end of the list. *)
CurRange_reversed ==
    IF run.probing THEN <<0, 999>>
    ELSE run.remaining_ranges[Len(run.remaining_ranges) - run.idx + 1]

(* The range the runner is working on. *)
CurRange == IF run.probing THEN <<0, 999>> ELSE run.remaining_ranges[run.idx]

(* The remote calls a run may make at most. *)
WorstCaseFetches(call_ranges) ==
    IF call_ranges.is_none THEN 4 ELSE Len(call_ranges.list)

(* With the count main read from the ledger, run_orchestrator_once walks   *)
(* the gates and either returns the blocked result or mints snapshot_id    *)
(* and enters run_snapshot_once (lines 59-73 or 166-175 of the runner).    *)
run_orchestrator_once_gates(now, now_tz, call_ranges, max_fetches) ==
    LET used_calls_today == get_used_calls_today(conn.ledger, prior_success, now)
        last_snapshot_at == get_last_snapshot_at(conn.raw)
        gates == OrchestratorGates(now, last_snapshot_at, used_calls_today)
    IN  /\ gates.reason = "executed" =>
               calls_made + WorstCaseFetches(call_ranges) <= max_fetches
        /\ tick' = [now |-> now,
                    now_tz |-> now_tz,
                    arg_is_none |-> call_ranges.is_none,
                    arg_list |-> call_ranges.list,
                    used_calls_today |-> used_calls_today,
                    last_snapshot_at |-> last_snapshot_at]
        /\ hist' = [NewHist(store) EXCEPT
                       !.runner_calls = IF gates.reason = "executed" THEN 1 ELSE 0]
        /\ cur' = NoCur
        /\ IF gates.reason # "executed"
           THEN /\ result' = gates
                /\ run' = NoRun
                /\ pc' = "idle"
           ELSE /\ result' = NoResult
                /\ run' = [NoRun EXCEPT
                             !.snapshot_id = gates.snapshot_id,
                             !.snapshot_collected_at = clock_now,
                             !.arg_is_none = call_ranges.is_none,
                             !.call_ranges_is_none = call_ranges.is_none,
                             !.call_ranges = call_ranges.list,
                             !.remaining_ranges = call_ranges.list,
                             !.probing = call_ranges.is_none,
                             !.decided_page_count =
                                 IF call_ranges.is_none THEN 3 ELSE None]
                /\ pc' = IF call_ranges.is_none \/ call_ranges.list # <<>>
                         THEN "fetch" ELSE "aggregate"

(* One tick: decide_collection comes first (orchestrator.py line 83) and   *)
(* raises on a zone-naive now, which run_orchestrator_once lets escape;    *)
(* otherwise the gates follow.  max_fetches bounds the remote calls the    *)
(* model follows.                                                          *)
run_orchestrator_once_within(now_tz, call_ranges, max_fetches) ==
    /\ pc = "idle"
    /\ LET now == clock_now
           time_policy == decide_collection_datetime([wall |-> now, micro |-> 0, tz |-> now_tz])
       IN  IF time_policy.raised
           THEN /\ call' = [op |-> "run_orchestrator_once",
                            args |-> [now_tz |-> now_tz],
                            raised |-> TRUE,
                            ret |-> [none |-> TRUE]]
                /\ UNCHANGED <<pc, tick, run, cur, hist, result>>
           ELSE /\ call' = NoCall
                /\ run_orchestrator_once_gates(now, now_tz, call_ranges, max_fetches)
    /\ UNCHANGED <<clock_now, store, conn, prior_success, calls_made, faults>>

(* A tick of the main specification: its runs make MaxFetches remote calls *)
(* in all.                                                                 *)
run_orchestrator_once(now_tz, call_ranges) ==
    run_orchestrator_once_within(now_tz, call_ranges, MaxFetches)

----------------------------------------------------------------------------
(* SnapshotRunner: ingestion/runner/snapshot_runner.py run_snapshot_once   *)

(* A step in which something raises uses up one of the modelled failures. *)
Failure(failed) ==
    /\ failed => faults < MaxFaults
    /\ faults' = IF failed THEN faults + 1 ELSE faults

(* The row counts a page may come back with: empty or full. *)
RowCounts == {0, MaxRows}

(* provider.fetch_page: raises, or returns rows and a total count.  Line   *)
(* 77 reads the total of the first page of a dynamic run; lines 196-198    *)
(* read only the rows of a page of the loop.  A page of the loop starts    *)
(* from the page_result of lines 184-192.                                  *)
fetch_page(ok, rows, total_count) ==
    /\ pc = "fetch"
    /\ ~ok => rows = 0 /\ total_count = None
    /\ LET range == CurRange
           over == total_count # None /\ total_count > TOTAL_COUNT_THRESHOLD
       IN  /\ hist' = [hist EXCEPT !.store_at_page = store,
                                    !.fetches =
                          Append(@, [start |-> range[1], end |-> range[2],
                                     ok |-> ok, rows |-> rows]),
                                    !.probe_total =
                          IF run.probing THEN total_count ELSE @,
                                    !.late_total_over =
                          IF run.probing THEN @ ELSE @ \/ over]
           /\ cur' = [NoCur EXCEPT !.start = range[1], !.end = range[2],
                                   !.rows = rows,
                                   !.error = IF ok THEN "None" ELSE "fetch_failed"]
           /\ run' = [run EXCEPT
                        !.total_count = IF run.probing THEN total_count ELSE @,
                        !.page_result = [NoPage EXCEPT !.start = range[1],
                                                       !.end = range[2]]]
    /\ pc' = IF ok THEN "write" ELSE "except"
    /\ calls_made' = calls_made + 1
    /\ Failure(~ok)
    /\ UNCHANGED <<call, clock_now, store, conn, prior_success, tick, result>>

(* Lines 80-99 and 200-224: the success ledger entry and the page's rows   *)
(* are written on the open transaction; the insert of a non-empty page may *)
(* raise.                                                                  *)
write_page(ingest_ok) ==
    /\ pc = "write"
    /\ cur.rows = 0 => ingest_ok
    /\ LET called_at == clock_now
           ledger1 == insert_call_log(conn.ledger, run.snapshot_id, cur.start,
                                      cur.end, called_at, "success")
           ingest_result == ingest_rows_page(conn.raw, run.snapshot_id,
                                             run.snapshot_collected_at,
                                             cur.start, cur.end, cur.rows, clock_now)
       IN  IF ingest_ok
           THEN /\ conn' = [ledger |-> ledger1, raw |-> ingest_result.raw]
                /\ cur' = [cur EXCEPT
                             !.inserted_rows = ingest_result.inserted_rows,
                             !.skipped_duplicates = ingest_result.skipped_duplicates]
                /\ run' = IF run.probing THEN run
                          ELSE [run EXCEPT
                                  !.page_result.attempted_rows = cur.rows,
                                  !.page_result.inserted_rows = ingest_result.inserted_rows,
                                  !.page_result.skipped_duplicates =
                                      ingest_result.skipped_duplicates,
                                  !.page_result.status = "ok"]
                /\ pc' = "commit"
           ELSE /\ conn' = [conn EXCEPT !.ledger = ledger1]
                /\ cur' = [cur EXCEPT !.error = "ingest_failed"]
                /\ run' = run
                /\ pc' = "except"
    /\ Failure(~ingest_ok)
    /\ UNCHANGED <<call, clock_now, store, prior_success, calls_made, tick, hist, result>>

(* The decision taking a total of exactly the threshold for four pages. *)
DecidePageCount_inclusive(total_count) ==
    IF total_count # None /\ total_count >= TOTAL_COUNT_THRESHOLD THEN 4 ELSE 3

(* Lines 115-119: the page-count decision from the first page's total. *)
DecidePageCount(total_count) ==
    IF total_count # None /\ total_count > TOTAL_COUNT_THRESHOLD THEN 4 ELSE 3

(* The ranges after the first page with the first page among them. *)
DynamicRanges_with_probe(decided_page_count) ==
    IF decided_page_count = 4
    THEN << <<0, 999>>, <<1000, 1999>>, <<2000, 2999>>, <<3000, 3999>> >>
    ELSE << <<0, 999>>, <<1000, 1999>>, <<2000, 2999>> >>

(* Lines 153-163: the ranges after the first page. *)
DynamicRanges(decided_page_count) ==
    IF decided_page_count = 4
    THEN << <<1000, 1999>>, <<2000, 2999>>, <<3000, 3999>> >>
    ELSE << <<1000, 1999>>, <<2000, 2999>> >>

(* The end of the first page keeping the total it read and the decision    *)
(* that total gives, whatever the page's outcome.                          *)
EndPage_keeps_probe_total(r, page_result, total_count, decided_page_count) ==
    IF r.probing
    THEN [r EXCEPT !.pages_result = Append(@, page_result),
                   !.decided_page_count = DecidePageCount(r.total_count),
                   !.call_ranges = DynamicRanges(DecidePageCount(r.total_count)),
                   !.call_ranges_is_none = FALSE,
                   !.remaining_ranges = DynamicRanges(DecidePageCount(r.total_count)),
                   !.probing = FALSE,
                   !.idx = 1]
    ELSE [r EXCEPT !.pages_result = Append(@, page_result),
                   !.idx = @ + 1]

(* The runner's locals once the page in flight has ended with page_result: *)
(* after the first page of a dynamic run, lines 152-165 build call_ranges; *)
(* in the loop, line 266 appends and the loop moves on.                    *)
EndPage(r, page_result, total_count, decided_page_count) ==
    IF r.probing
    THEN [r EXCEPT !.pages_result = Append(@, page_result),
                   !.total_count = total_count,
                   !.decided_page_count = decided_page_count,
                   !.call_ranges = DynamicRanges(decided_page_count),
                   !.call_ranges_is_none = FALSE,
                   !.remaining_ranges = DynamicRanges(decided_page_count),
                   !.probing = FALSE,
                   !.idx = 1]
    ELSE [r EXCEPT !.pages_result = Append(@, page_result),
                   !.idx = @ + 1]

(* The loop giving up after a page that failed. *)
NextPc_stop_on_error(r) ==
    IF /\ r.idx <= Len(r.remaining_ranges)
       /\ r.pages_result[Len(r.pages_result)].status # "error"
    THEN "fetch" ELSE "aggregate"

NextPc(r) == IF r.idx <= Len(r.remaining_ranges) THEN "fetch" ELSE "aggregate"

(* A commit that makes the ledger writes durable and loses the rows. *)
commit_ledger_only(durable, view) ==
    [store |-> [ledger |-> view.ledger, raw |-> durable.raw],
     conn |-> [ledger |-> view.ledger, raw |-> durable.raw]]

(* mysql_conn.commit(): what the connection sees becomes the durable store. *)
commit(durable, view) == [store |-> view, conn |-> view]

(* A rollback that takes the store back to where the run began. *)
rollback_whole_run(durable, view, at_run_start) ==
    [store |-> at_run_start, conn |-> at_run_start]

(* A rollback that makes the ledger writes of the open transaction durable *)
(* and drops its rows.                                                     *)
rollback_keeps_ledger_writes(durable, view, at_run_start) ==
    [store |-> [ledger |-> view.ledger, raw |-> durable.raw],
     conn |-> [ledger |-> view.ledger, raw |-> durable.raw]]

(* A rollback that leaves the writes of the open transaction in place. *)
rollback_keeps_writes(durable, view, at_run_start) ==
    [store |-> durable, conn |-> view]

(* mysql_conn.rollback(): the writes of the open transaction are dropped;  *)
(* at_run_start is the durable store as the run found it, which a rollback *)
(* of one page has nothing to do with.                                     *)
rollback(durable, view, at_run_start) == [store |-> durable, conn |-> durable]

(* mysql_conn.commit(), lines 100-119 and 231: the transaction becomes     *)
(* durable, or commit raises and control passes to the except block.       *)
commit_page(ok) ==
    /\ pc = "commit"
    /\ hist' = [hist EXCEPT !.commit_calls = @ + 1,
                            !.commits_done = IF ok THEN @ + 1 ELSE @]
    /\ IF ok
       THEN LET page_result ==
                    IF run.probing
                    THEN [start |-> cur.start, end |-> cur.end, status |-> "ok",
                          attempted_rows |-> cur.rows,
                          inserted_rows |-> cur.inserted_rows,
                          skipped_duplicates |-> cur.skipped_duplicates,
                          error |-> "None"]
                    ELSE run.page_result
                r == EndPage(run, page_result, run.total_count,
                             DecidePageCount(run.total_count))
            IN  /\ store' = commit(store, conn).store
                /\ conn' = commit(store, conn).conn
                /\ run' = r
                /\ pc' = NextPc(r)
                /\ cur' = cur
       ELSE /\ cur' = [cur EXCEPT !.error = "commit_failed"]
            /\ pc' = "except"
            /\ UNCHANGED <<store, conn, run>>
    /\ Failure(~ok)
    /\ UNCHANGED <<call, clock_now, prior_success, calls_made, tick, result>>

(* The except block letting a failure of its ledger write escape: the run  *)
(* ends there, the page neither rolled back nor reported.                  *)
log_page_error_propagates(log_ok) ==
    /\ pc = "except"
    /\ conn' = IF log_ok
               THEN [conn EXCEPT !.ledger =
                        insert_call_log(@, run.snapshot_id, cur.start, cur.end,
                                        clock_now, "error")]
               ELSE conn
    /\ cur' = [cur EXCEPT !.log_failed = ~log_ok]
    /\ pc' = IF log_ok THEN "rollback" ELSE "aggregate"
    /\ Failure(~log_ok)
    /\ UNCHANGED <<call, clock_now, store, prior_success, calls_made, tick, run, hist, result>>

(* Lines 121-134 and 233-247: the except block records the call as error   *)
(* on the open transaction; a failure of that write is swallowed.          *)
log_page_error(log_ok) ==
    /\ pc = "except"
    /\ conn' = IF log_ok
               THEN [conn EXCEPT !.ledger =
                        insert_call_log(@, run.snapshot_id, cur.start, cur.end,
                                        clock_now, "error")]
               ELSE conn
    /\ cur' = [cur EXCEPT !.log_failed = ~log_ok]
    /\ pc' = "rollback"
    /\ Failure(~log_ok)
    /\ UNCHANGED <<call, clock_now, store, prior_success, calls_made, tick, run, hist, result>>

(* Lines 136-150 and 250-252: mysql_conn.rollback() and the error page. *)
rollback_page ==
    /\ pc = "rollback"
    /\ store' = rollback(store, conn, hist.store_at_tick).store
    /\ conn' = rollback(store, conn, hist.store_at_tick).conn
    /\ hist' = [hist EXCEPT !.rollback_calls = @ + 1]
    /\ LET page_result ==
               IF run.probing
               THEN [start |-> cur.start, end |-> cur.end, status |-> "error",
                     attempted_rows |-> 0, inserted_rows |-> 0,
                     skipped_duplicates |-> 0, error |-> cur.error]
               ELSE [run.page_result EXCEPT !.status = "error",
                                            !.error = cur.error]
           r == EndPage(run, page_result, None, 3)
       IN  /\ run' = r
           /\ pc' = NextPc(r)
    /\ UNCHANGED <<call, clock_now, prior_success, calls_made, faults, tick, cur, result>>

RECURSIVE SeqSum(_)
SeqSum(q) == IF q = <<>> THEN 0 ELSE Head(q) + SeqSum(Tail(q))

(* The aggregate status with the two tests in the other order. *)
AggregateStatus_error_first(errors_total, pages_count) ==
    IF errors_total = pages_count THEN "error"
    ELSE IF errors_total = 0 THEN "ok"
    ELSE "partial"

(* Lines 275-280: the aggregate status. *)
AggregateStatus(errors_total, pages_count) ==
    IF errors_total = 0 THEN "ok"
    ELSE IF errors_total = pages_count THEN "error"
    ELSE "partial"

(* Lines 268-325: totals, status and the returned dict. *)
SnapshotResult(r) ==
    LET pages == r.pages_result
        errors_total == Cardinality({i \in 1..Len(pages) : pages[i].status = "error"})
    IN  [snapshot_id |-> r.snapshot_id,
         ranges |-> r.call_ranges,
         pages |-> pages,
         attempted_total |-> SeqSum([i \in 1..Len(pages) |-> pages[i].attempted_rows]),
         inserted_total |-> SeqSum([i \in 1..Len(pages) |-> pages[i].inserted_rows]),
         duplicates_total |-> SeqSum([i \in 1..Len(pages) |-> pages[i].skipped_duplicates]),
         errors_total |-> errors_total,
         status |-> AggregateStatus(errors_total, Len(pages)),
         total_count |-> r.total_count,
         decided_page_count |-> r.decided_page_count]

(* The final structured log with the policy fields whatever the path. *)
LogData_policy_fields_always(r) ==
    {"snapshot_time", "totalCount", "decided_page_count", "attempted_pages",
     "success_pages", "page_4_attempted", "page_4_success"}

(* Lines 288-312: the keys of the final structured log.  The test of line  *)
(* 291 reads call_ranges as it is by then, after line 153 or 159 has       *)
(* assigned the dynamic ranges to it.                                      *)
LogData(r) ==
    IF r.call_ranges_is_none
    THEN {"snapshot_time", "totalCount", "decided_page_count", "attempted_pages",
          "success_pages", "page_4_attempted", "page_4_success"}
    ELSE {"snapshot_time", "attempted_pages", "success_pages",
          "page_4_attempted", "page_4_success"}

aggregate ==
    /\ pc = "aggregate"
    /\ run' = [run EXCEPT !.snapshot_result = SnapshotResult(run),
                          !.log_data = LogData(run)]
    /\ pc' = "return"
    /\ UNCHANGED <<call, clock_now, store, conn, prior_success, calls_made, faults, tick, cur, hist, result>>

(* A return that turns a run whose pages all failed into a blocked tick. *)
orchestrator_return_blocks_on_runner_error ==
    /\ pc = "return"
    /\ LET elapsed_seconds == IF tick.last_snapshot_at # None
                              THEN tick.now - tick.last_snapshot_at ELSE None
       IN  result' = IF run.snapshot_result.status = "error"
                     THEN BlockedResult("runner_failed", tick.last_snapshot_at,
                                        decide_collection(tick.now).interval_seconds,
                                        elapsed_seconds)
                     ELSE ExecutedResult(run.snapshot_id, tick.last_snapshot_at,
                                         decide_collection(tick.now).interval_seconds,
                                         elapsed_seconds,
                                         run.snapshot_result.total_count,
                                         run.snapshot_result.decided_page_count)
    /\ pc' = "idle"
    /\ UNCHANGED <<call, clock_now, store, conn, prior_success, calls_made, faults, tick, run, cur, hist>>

(* orchestrator.py lines 162-178: the executed result. *)
orchestrator_return ==
    /\ pc = "return"
    /\ LET elapsed_seconds == IF tick.last_snapshot_at # None
                              THEN tick.now - tick.last_snapshot_at ELSE None
       IN  result' = ExecutedResult(run.snapshot_id, tick.last_snapshot_at,
                                    decide_collection(tick.now).interval_seconds,
                                    elapsed_seconds,
                                    run.snapshot_result.total_count,
                                    run.snapshot_result.decided_page_count)
    /\ pc' = "idle"
    /\ UNCHANGED <<call, clock_now, store, conn, prior_success, calls_made, faults, tick, run, cur, hist>>

----------------------------------------------------------------------------

Next ==
    \/ AdvanceClock
    \/ \E now_tz \in NowZones, call_ranges \in RangeInputs :
          run_orchestrator_once(now_tz, call_ranges)
    \/ \E ok \in BOOLEAN, rows \in RowCounts, total_count \in TotalCounts :
          fetch_page(ok, rows, total_count)
    \/ \E ingest_ok \in BOOLEAN : write_page(ingest_ok)
    \/ \E ok \in BOOLEAN : commit_page(ok)
    \/ \E log_ok \in BOOLEAN : log_page_error(log_ok)
    \/ rollback_page
    \/ aggregate
    \/ orchestrator_return

Spec == Init /\ [][Next]_vars

(* The steps of the tick in progress.  The code is sequential and every    *)
(* call returns or raises, so a tick that has started keeps taking them.   *)
RunnerNext ==
    \/ \E ok \in BOOLEAN, rows \in RowCounts, total_count \in TotalCounts :
          fetch_page(ok, rows, total_count)
    \/ \E ingest_ok \in BOOLEAN : write_page(ingest_ok)
    \/ \E ok \in BOOLEAN : commit_page(ok)
    \/ \E log_ok \in BOOLEAN : log_page_error(log_ok)
    \/ rollback_page
    \/ aggregate
    \/ orchestrator_return

(* main given --ranges with more ranges than the budget gate asks for      *)
(* (step7 lines 94-101 take any number), on a morning with                 *)
(* DAILY_LIMIT - REQUIRED_CALLS calls used.                                *)
MaxLongFetches == 5

LongRanges ==
    [is_none |-> FALSE,
     list |-> << <<0, 999>>, <<1000, 1999>>, <<2000, 2999>>, <<3000, 3999>>, <<4000, 4999>> >>]

LongInit ==
    /\ clock_now = Instants[2]
    /\ store = EmptyStore
    /\ conn = EmptyStore
    /\ prior_success = DAILY_LIMIT - REQUIRED_CALLS
    /\ calls_made = 0
    /\ faults = 0
    /\ pc = "idle"
    /\ tick = NoTick
    /\ run = NoRun
    /\ cur = NoCur
    /\ hist = NewHist(EmptyStore)
    /\ result = NoResult
    /\ call = NoCall

LongNext ==
    \/ run_orchestrator_once_within("Asia/Seoul", LongRanges, MaxLongFetches)
    \/ RunnerNext

LongSpec == LongInit /\ [][LongNext]_vars

(* Callers other than main, which may hand run_orchestrator_once a now     *)
(* without a zone.                                                         *)
AnyCallerNext ==
    \/ Next
    \/ \E call_ranges \in RangeInputs : run_orchestrator_once("naive", call_ranges)

AnyCallerSpec == Init /\ [][AnyCallerNext]_vars

FairSpec == Spec /\ WF_vars(RunnerNext)

----------------------------------------------------------------------------
(* Properties *)

(* The last tick has returned and result is its result. *)
Returned == pc = "idle" /\ tick.now # None

(* The run of the last tick has finished and snapshot_result is its result. *)
RunDone == pc = "return"

SuccessCount(ledger, date) ==
    get_used_calls_today(ledger, prior_success, date * DaySeconds)

Dates == {DateOf(Instants[i]) : i \in 1..Len(Instants)}

HasLedger(ledger, snapshot_id, page_start, page_end) ==
    \E e \in ledger : SameKey(e, snapshot_id, page_start, page_end)

HasRows(raw, snapshot_id, page_start, page_end, rows) ==
    \A k \in 1..rows :
        \E r \in raw : RawSameKey(r, snapshot_id, page_start, page_end, k)

(* C1: with used_calls_today read from the ledger at every tick, the       *)
(* success entries of any one calendar date never number more than the     *)
(* daily limit of 1000.                                                    *)
C1_DailyLimitRespected ==
    \A d \in Dates : SuccessCount(store.ledger, d) <= DAILY_LIMIT

(* A dynamic run has returned and the day's success count stands exactly   *)
(* at the limit.                                                           *)
C1_Witness ==
    /\ Returned
    /\ result.executed
    /\ tick.arg_is_none
    /\ Len(hist.fetches) = 4
    /\ SuccessCount(store.ledger, DateOf(tick.now)) = DAILY_LIMIT

(* The gates as the tick found them. *)
TimePolicyPasses == decide_collection(tick.now).should_collect

IntervalPasses ==
    \/ tick.last_snapshot_at = None
    \/ tick.now - tick.last_snapshot_at >= decide_collection(tick.now).interval_seconds

BudgetPasses ==
    check_budget(DateOf(tick.now), tick.used_calls_today,
                 REQUIRED_CALLS, DAILY_LIMIT).should_collect

(* C2: the gates are evaluated in the order time policy, interval, budget, *)
(* and the reason returned is that of the first gate that fails: time      *)
(* policy whatever the other two, interval whatever the budget, budget     *)
(* only when the first two pass, executed only when all three pass.        *)
C2_GateOrder ==
    Returned =>
        /\ ~TimePolicyPasses => result.reason = "time_policy_blocked"
        /\ TimePolicyPasses /\ ~IntervalPasses
              => result.reason = "interval_not_elapsed"
        /\ result.reason = "budget_blocked"
              => TimePolicyPasses /\ IntervalPasses /\ ~BudgetPasses
        /\ result.reason = "executed"
              => TimePolicyPasses /\ IntervalPasses /\ BudgetPasses

(* A tick stopped at the interval gate while the budget gate would have    *)
(* stopped it too.                                                         *)
C2_Witness ==
    /\ Returned
    /\ result.reason = "interval_not_elapsed"
    /\ ~BudgetPasses

(* C3: a tick that returns executed = false has not invoked the runner:    *)
(* no fetch, no commit, no rollback, nothing written, the store as the     *)
(* tick found it, and snapshot_id null.                                    *)
C3_BlockedTickTouchesNothing ==
    Returned /\ ~result.executed =>
        /\ result.reason \in {"time_policy_blocked", "interval_not_elapsed",
                              "budget_blocked"}
        /\ hist.fetches = <<>>
        /\ hist.commit_calls = 0
        /\ hist.rollback_calls = 0
        /\ store = hist.store_at_tick
        /\ conn = store
        /\ result.snapshot_id = None

(* A tick blocked by the budget gate over a store that holds earlier pages. *)
C3_Witness ==
    /\ Returned
    /\ ~result.executed
    /\ result.reason = "budget_blocked"
    /\ store.ledger # {}

(* C4: what a page has committed stays: no later step removes a durable    *)
(* ledger entry, turns a durable success entry into anything else, or      *)
(* removes a durable content row.                                          *)
C4_CommittedPagesOnlyGrow ==
    [][ /\ \A e \in store.ledger :
              \E f \in store'.ledger :
                  /\ SameKey(f, e.snapshot_id, e.page_start, e.page_end)
                  /\ f.call_date = e.call_date
                  /\ e.status = "success" => f.status = "success"
        /\ store.raw \subseteq store'.raw ]_vars

(* A later page of the run has failed and been rolled back while an        *)
(* earlier page of the same run, rows included, is still in the store.     *)
C4_Witness ==
    /\ pc \in {"fetch", "aggregate"}
    /\ \E i, j \in 1..Len(run.pages_result) :
          /\ i < j
          /\ run.pages_result[i].status = "ok"
          /\ run.pages_result[i].inserted_rows > 0
          /\ run.pages_result[j].status = "error"
          /\ HasLedger(store.ledger, run.snapshot_id,
                       run.pages_result[i].start, run.pages_result[i].end)
          /\ HasRows(store.raw, run.snapshot_id, run.pages_result[i].start,
                     run.pages_result[i].end, run.pages_result[i].attempted_rows)


(* The pages of the run in progress that have ended, by position. *)
EndedPages == 1..Len(run.pages_result)

(* A page has just ended with its commit or its rollback. *)
PageJustEnded ==
    /\ pc \in {"fetch", "aggregate"}
    /\ Len(hist.fetches) >= 1
    /\ Len(run.pages_result) = Len(hist.fetches)

LastFetch == hist.fetches[Len(hist.fetches)]

LastPage == run.pages_result[Len(run.pages_result)]

(* C5 as stated: after every commit or rollback, for each page of the      *)
(* snapshot that returned at least one row, the store holds the page's     *)
(* ledger entry if and only if it holds the page's content rows.           *)
C5_LedgerIffRows_AsStated ==
    \A i \in EndedPages :
        hist.fetches[i].rows >= 1 =>
            (HasLedger(store.ledger, run.snapshot_id,
                       hist.fetches[i].start, hist.fetches[i].end)
             <=> HasRows(store.raw, run.snapshot_id, hist.fetches[i].start,
                         hist.fetches[i].end, hist.fetches[i].rows))

(* C5 as amended: after the commit or rollback that ends a page which      *)
(* returned at least one row, an ok page has its ledger entry and its rows *)
(* in the store together and an error page has left the store as it was    *)
(* before the page; the if-and-only-if holds whenever no ledger entry of   *)
(* that snapshot_id and range was in the store before the page.            *)
C5_LedgerAndRowsTogether ==
    PageJustEnded /\ LastFetch.rows >= 1 =>
        LET has_ledger == HasLedger(store.ledger, run.snapshot_id,
                                    LastFetch.start, LastFetch.end)
            has_rows == HasRows(store.raw, run.snapshot_id, LastFetch.start,
                                LastFetch.end, LastFetch.rows)
            had_ledger == HasLedger(hist.store_at_page.ledger, run.snapshot_id,
                                    LastFetch.start, LastFetch.end)
        IN  /\ LastPage.status = "ok" => has_ledger /\ has_rows
            /\ LastPage.status = "error" => store = hist.store_at_page
            /\ has_rows => has_ledger
            /\ ~had_ledger => (has_ledger <=> has_rows)
            /\ conn = store

(* A page with rows was logged as success, failed in its ingest and was    *)
(* rolled back: neither its ledger entry nor its rows are in the store.    *)
C5_Witness ==
    /\ PageJustEnded
    /\ LastFetch.rows >= 1
    /\ LastPage.status = "error"
    /\ LastPage.error = "ingest_failed"
    /\ ~HasLedger(store.ledger, run.snapshot_id, LastFetch.start, LastFetch.end)

(* C6: when the run is done the ledger holds an entry for every page fetch *)
(* attempted, success for an ok page and error for an error page.          *)
C6_LedgerRecordsEveryAttempt ==
    RunDone =>
        \A i \in EndedPages :
            \E e \in store.ledger :
                /\ SameKey(e, run.snapshot_id, run.pages_result[i].start,
                           run.pages_result[i].end)
                /\ e.status = IF run.pages_result[i].status = "ok"
                              THEN "success" ELSE "error"

(* The ranges a run has to fetch: the supplied list, or the first page and *)
(* the ranges decided after it.                                            *)
ExpectedRanges ==
    IF tick.arg_is_none
    THEN << <<0, 999>> >> \o DynamicRanges(run.decided_page_count)
    ELSE tick.arg_list

EveryRangeAttemptedOnce ==
    /\ Len(hist.fetches) = Len(ExpectedRanges)
    /\ Len(run.snapshot_result.pages) = Len(hist.fetches)
    /\ \A i \in 1..Len(hist.fetches) :
          /\ <<hist.fetches[i].start, hist.fetches[i].end>> = ExpectedRanges[i]
          /\ run.snapshot_result.pages[i].start = hist.fetches[i].start
          /\ run.snapshot_result.pages[i].end = hist.fetches[i].end
          /\ (run.snapshot_result.pages[i].status = "ok") => hist.fetches[i].ok

(* C7: a run that has started always gets to its end, whatever fails on    *)
(* the way, and at its end every range was fetched once, in order, with    *)
(* one entry of the per-page list for each fetch.                          *)
C7_RunCompletes ==
    /\ [](RunDone => EveryRangeAttemptedOnce)
    /\ ((pc # "idle") ~> RunDone)

(* A dynamic run of four pages is done in which page [1000,1999] and page  *)
(* [3000,3999] failed.                                                     *)
C7_Witness ==
    /\ RunDone
    /\ Len(run.snapshot_result.pages) = 4
    /\ run.snapshot_result.pages[2].status = "error"
    /\ run.snapshot_result.pages[4].status = "error"
    /\ run.snapshot_result.pages[3].status = "ok"

ErrorPages == {i \in 1..Len(run.snapshot_result.pages) :
                  run.snapshot_result.pages[i].status = "error"}

(* C8 as stated: the status is error iff every attempted page failed, ok   *)
(* iff none failed, partial otherwise, for every number of pages, and      *)
(* errors_total counts the error pages.                                    *)
C8_AggregateStatus_AsStated ==
    RunDone =>
        LET n == Len(run.snapshot_result.pages)
            every_failed == \A i \in 1..n : i \in ErrorPages
            none_failed == \A i \in 1..n : i \notin ErrorPages
        IN  /\ (run.snapshot_result.status = "error") <=> every_failed
            /\ (run.snapshot_result.status = "ok") <=> none_failed
            /\ (run.snapshot_result.status = "partial")
                  <=> (~every_failed /\ ~none_failed)
            /\ run.snapshot_result.errors_total = Cardinality(ErrorPages)

(* C8 as amended: the status is error iff at least one page was attempted  *)
(* and every attempted page failed, ok iff none failed (a run without      *)
(* pages included), partial otherwise, and errors_total counts the error   *)
(* pages.                                                                  *)
C8_AggregateStatus ==
    RunDone =>
        LET n == Len(run.snapshot_result.pages)
            every_failed == \A i \in 1..n : i \in ErrorPages
            none_failed == \A i \in 1..n : i \notin ErrorPages
        IN  /\ (run.snapshot_result.status = "error") <=> (n >= 1 /\ every_failed)
            /\ (run.snapshot_result.status = "ok") <=> none_failed
            /\ (run.snapshot_result.status = "partial")
                  <=> (~every_failed /\ ~none_failed)
            /\ run.snapshot_result.errors_total = Cardinality(ErrorPages)

(* A run given an empty list of ranges is done, with status ok. *)
C8_Witness ==
    /\ RunDone
    /\ ~tick.arg_is_none
    /\ run.snapshot_result.pages = <<>>
    /\ run.snapshot_result.status = "ok"

OkPagesSoFar == {i \in EndedPages : run.pages_result[i].status = "ok"}

ErrorPagesSoFar == {i \in EndedPages : run.pages_result[i].status = "error"}

CommitFailedSoFar == {i \in EndedPages : run.pages_result[i].error = "commit_failed"}

(* C9 as stated: when a page has ended, commit has been invoked as many    *)
(* times as there are ok pages and rollback as many times as there are     *)
(* error pages, and nothing uncommitted is left.                           *)
C9_OneTerminalAction_AsStated ==
    (PageJustEnded \/ RunDone) =>
        /\ hist.commit_calls = Cardinality(OkPagesSoFar)
        /\ hist.rollback_calls = Cardinality(ErrorPagesSoFar)
        /\ conn = store

(* C9 as amended: when a page has ended, as many commits have gone through *)
(* as there are ok pages, rollback has been invoked once for each error    *)
(* page, commit has been invoked once for each ok page and once more for   *)
(* each page whose commit raised, and nothing uncommitted is left.         *)
C9_OneTerminalAction ==
    (PageJustEnded \/ RunDone) =>
        /\ hist.commits_done = Cardinality(OkPagesSoFar)
        /\ hist.rollback_calls = Cardinality(ErrorPagesSoFar)
        /\ hist.commits_done + hist.rollback_calls = Len(run.pages_result)
        /\ hist.commit_calls
              = Cardinality(OkPagesSoFar) + Cardinality(CommitFailedSoFar)
        /\ conn = store

(* A run is done in which one page was committed and another, whose ingest *)
(* had written a ledger entry and rows, was rolled back.                   *)
C9_Witness ==
    /\ RunDone
    /\ hist.commits_done >= 1
    /\ \E i \in EndedPages : run.pages_result[i].error = "ingest_failed"

(* C10: with the time policy passing, the tick is stopped at the interval  *)
(* gate iff a prior snapshot instant exists and now minus that instant is  *)
(* strictly less than the bucket's interval (900 normal, 120 commute); the *)
(* blocked result reports interval, elapsed seconds and the instant.       *)
C10_IntervalGate ==
    Returned /\ TimePolicyPasses =>
        LET bucket == decide_collection(tick.now).time_bucket
            interval == IF bucket = "normal" THEN 900 ELSE 120
            blocks == /\ tick.last_snapshot_at # None
                      /\ tick.now - tick.last_snapshot_at < interval
        IN  /\ bucket \in {"normal", "morning", "evening"}
            /\ (result.reason = "interval_not_elapsed") <=> blocks
            /\ result.reason = "interval_not_elapsed" =>
                  /\ result.interval_seconds = interval
                  /\ result.elapsed_seconds = tick.now - tick.last_snapshot_at
                  /\ result.last_snapshot_at = tick.last_snapshot_at
                  /\ ~result.executed

(* A tick in the commute bucket exactly 120 seconds after the last         *)
(* snapshot instant got past the interval gate.                            *)
C10_Witness ==
    /\ Returned
    /\ tick.last_snapshot_at # None
    /\ tick.now - tick.last_snapshot_at = COMMUTE_INTERVAL_SECONDS
    /\ decide_collection(tick.now).time_bucket = "morning"
    /\ result.reason # "interval_not_elapsed"

C12_ExecutedTick ==
    LET t == tick.now
        second_of_day == t % 86400
        spelled == (t \div 86400) * 1000000 + (second_of_day \div 3600) * 10000
                     + ((second_of_day % 3600) \div 60) * 100 + (second_of_day % 60)
    IN  /\ Returned /\ TimePolicyPasses /\ IntervalPasses /\ BudgetPasses =>
              /\ result.executed
              /\ result.reason = "executed"
              /\ result.snapshot_id = spelled
              /\ \A u \in InstantSet : u # t => FormatSnapshotId(u) # result.snapshot_id
              /\ hist.runner_calls = 1
              /\ run.snapshot_id = spelled
              /\ run.snapshot_result.snapshot_id = spelled
              /\ run.arg_is_none = tick.arg_is_none
              /\ ~tick.arg_is_none => run.snapshot_result.ranges = tick.arg_list
        /\ Returned /\ ~result.executed => hist.runner_calls = 0

(* A tick at 00:29:59 of the second day has executed with two supplied     *)
(* ranges.                                                                 *)
C12_Witness ==
    /\ Returned
    /\ result.executed
    /\ tick.now = 88199
    /\ result.snapshot_id = 1002959
    /\ tick.arg_list = << <<0, 999>>, <<1000, 1999>> >>

DynamicAfterProbe ==
    /\ tick.arg_is_none
    /\ run.snapshot_id # None
    /\ ~run.probing

(* C14: in a dynamic run decided_page_count is 4 iff the first page        *)
(* succeeded and reported a total that is present and greater than 3000,   *)
(* and 3 otherwise; it is fixed when the first page ends, before any other *)
(* fetch, and a total reported by a later page changes neither it nor the  *)
(* ranges.                                                                 *)
C14_PageCountDecision ==
    /\ [](DynamicAfterProbe =>
            LET four == /\ run.pages_result[1].status = "ok"
                        /\ hist.probe_total # None
                        /\ hist.probe_total > 3000
            IN  /\ run.decided_page_count = IF four THEN 4 ELSE 3
                /\ Len(run.remaining_ranges) = run.decided_page_count - 1
                /\ Len(hist.fetches) = 1 => pc \in {"fetch", "aggregate"}
                /\ RunDone => Len(hist.fetches) = run.decided_page_count)
    /\ [][DynamicAfterProbe /\ pc # "idle" =>
            /\ run'.decided_page_count = run.decided_page_count
            /\ run'.remaining_ranges = run.remaining_ranges
            /\ run'.total_count = run.total_count]_vars

(* A dynamic run is done with three fetches: its first page reported a     *)
(* total of exactly 3000 and a later page a total above 3000.              *)
C14_Witness ==
    /\ RunDone
    /\ tick.arg_is_none
    /\ hist.probe_total = 3000
    /\ run.pages_result[1].status = "ok"
    /\ hist.late_total_over
    /\ run.decided_page_count = 3
    /\ Len(hist.fetches) = 3

(* The tick in progress, or the last one, has entered a dynamic run. *)
DynamicRun == tick.arg_is_none /\ run.snapshot_id # None

(* C15: in a dynamic run the fetches are [0,999], [1000,1999], [2000,2999] *)
(* and, only when decided_page_count is 4, [3000,3999], each once and in   *)
(* that order; the first page has been committed or rolled back before any *)
(* other fetch starts; the returned ranges hold only the ranges after the  *)
(* first page.                                                             *)
C15_DynamicFetchOrder ==
    DynamicRun =>
        /\ \A i \in 1..Len(hist.fetches) :
              /\ hist.fetches[i].start = (i - 1) * 1000
              /\ hist.fetches[i].end = (i - 1) * 1000 + 999
        /\ Len(hist.fetches) <= 4
        /\ Len(hist.fetches) = 4 => run.decided_page_count = 4
        /\ Len(hist.fetches) >= 2 =>
              /\ ~run.probing
              /\ Len(run.pages_result) >= 1
              /\ hist.commits_done + hist.rollback_calls >= 1
        /\ pc = "fetch" /\ ~run.probing =>
              /\ conn = store
              /\ hist.commits_done + hist.rollback_calls = Len(hist.fetches)
        /\ RunDone =>
              /\ Len(hist.fetches) = run.decided_page_count
              /\ run.snapshot_result.ranges =
                    IF run.decided_page_count = 4
                    THEN << <<1000, 1999>>, <<2000, 2999>>, <<3000, 3999>> >>
                    ELSE << <<1000, 1999>>, <<2000, 2999>> >>

(* A dynamic run of four fetches is done and returns three ranges. *)
C15_Witness ==
    /\ RunDone
    /\ DynamicRun
    /\ Len(hist.fetches) = 4
    /\ hist.fetches[4].start = 3000
    /\ Len(run.snapshot_result.ranges) = 3

(* C16: when the first page of a dynamic run fails in its fetch or its     *)
(* ingest, its writes are rolled back, it is an error page with zero       *)
(* attempted, inserted and duplicate rows, decided_page_count is 3 with    *)
(* total_count null, and [1000,1999] and [2000,2999] are still fetched.    *)
C16_ProbeFailureFallback ==
    DynamicAfterProbe /\ run.pages_result[1].status = "error" =>
        /\ run.pages_result[1].start = 0
        /\ run.pages_result[1].end = 999
        /\ run.pages_result[1].attempted_rows = 0
        /\ run.pages_result[1].inserted_rows = 0
        /\ run.pages_result[1].skipped_duplicates = 0
        /\ run.decided_page_count = 3
        /\ run.total_count = None
        /\ run.remaining_ranges = << <<1000, 1999>>, <<2000, 2999>> >>
        /\ Len(hist.fetches) = 1 =>
              /\ pc = "fetch"
              /\ hist.rollback_calls = 1
              /\ store = hist.store_at_page
              /\ conn = store
        /\ RunDone =>
              /\ Len(hist.fetches) = 3
              /\ hist.fetches[2].start = 1000 /\ hist.fetches[2].end = 1999
              /\ hist.fetches[3].start = 2000 /\ hist.fetches[3].end = 2999
              /\ run.snapshot_result.decided_page_count = 3
              /\ run.snapshot_result.total_count = None

(* The first page reported a total above 3000 with a row, its ingest       *)
(* failed, and the run is done after fetching the two other ranges.        *)
C16_Witness ==
    /\ RunDone
    /\ DynamicRun
    /\ hist.probe_total = 3001
    /\ hist.fetches[1].ok
    /\ hist.fetches[1].rows >= 1
    /\ run.pages_result[1].error = "ingest_failed"
    /\ Len(hist.fetches) = 3

(* The tick in progress, or the last one, has entered a run over supplied  *)
(* ranges.                                                                 *)
ExternalRun == ~tick.arg_is_none /\ run.snapshot_id # None

SuccessEntries(ledger, d) ==
    {e \in ledger : e.call_date = d /\ e.status = "success"}

C20_UsedCallsCountsSuccessOfDate ==
    /\ \A d \in Dates : \A e \in conn.ledger :
          LET with == get_used_calls_today(conn.ledger, 0, d * DaySeconds)
              without == get_used_calls_today(conn.ledger \ {e}, 0, d * DaySeconds)
          IN  IF e.call_date = d /\ e.status = "success"
              THEN with = without + 1
              ELSE with = without
    /\ \A d \in Dates : get_used_calls_today({}, 0, d * DaySeconds) = 0
    /\ tick.now # None =>
          tick.used_calls_today =
             Cardinality(SuccessEntries(hist.store_at_tick.ledger, DateOf(tick.now)))
               + (IF DateOf(tick.now) = 0 THEN prior_success ELSE 0)

(* A tick of the second day works with 0 used calls over a ledger holding  *)
(* success entries of the first day, and the page in flight has written an *)
(* error entry.                                                            *)
C20_Witness ==
    /\ pc = "rollback"
    /\ DateOf(tick.now) = 1
    /\ tick.used_calls_today = 0
    /\ \E e \in hist.store_at_tick.ledger : e.call_date = 0 /\ e.status = "success"
    /\ \E e \in conn.ledger : e.status = "error"

----------------------------------------------------------------------------
(* The ledger and the content table used on their own: callers such as     *)
(* scripts/step3_run_raw_ingest.py and scripts/step4_run_snapshot_once.py  *)
(* call insert_call_log and ingest_rows_page on a connection and commit or *)
(* roll back themselves; step 4 accepts a snapshot id given on the command *)
(* line, so a snapshot id is recorded again at a later time.               *)

StoreSnapshotIds == {FormatSnapshotId(Instants[1])}

StoreRanges == {<<0, 999>>, <<1000, 1999>>}

StoreInstants == {Instants[7], Instants[9]}

(* clock() of the caller moves on. *)
StoreAdvanceClock ==
    /\ pc = "idle"
    /\ \E t \in StoreInstants :
          /\ t > clock_now
          /\ clock_now' = t
    /\ call' = [op |-> "clock", args |-> [none |-> TRUE], raised |-> FALSE,
                ret |-> [none |-> TRUE]]
    /\ UNCHANGED <<store, conn, prior_success, calls_made, faults, pc, tick, run, cur, hist, result>>

insert_call_log_call(snapshot_id, range, status) ==
    /\ pc = "idle"
    /\ conn' = [conn EXCEPT !.ledger =
                   insert_call_log(@, snapshot_id, range[1], range[2], clock_now, status)]
    /\ call' = [op |-> "insert_call_log",
                args |-> [snapshot_id |-> snapshot_id, page_start |-> range[1],
                          page_end |-> range[2], called_at |-> clock_now,
                          status |-> status],
                raised |-> FALSE,
                ret |-> [none |-> TRUE]]
    /\ UNCHANGED <<clock_now, store, prior_success, calls_made, faults, pc, tick, run, cur, hist, result>>

ingest_rows_page_call(snapshot_id, range, rows) ==
    /\ pc = "idle"
    /\ LET r == ingest_rows_page(conn.raw, snapshot_id, clock_now, range[1], range[2],
                                 rows, clock_now)
       IN  /\ conn' = [conn EXCEPT !.raw = r.raw]
           /\ call' = [op |-> "ingest_rows_page",
                       args |-> [snapshot_id |-> snapshot_id, page_start |-> range[1],
                                 page_end |-> range[2], rows |-> rows],
                       raised |-> FALSE,
                       ret |-> [attempted_rows |-> r.attempted_rows,
                                inserted_rows |-> r.inserted_rows,
                                skipped_duplicates |-> r.skipped_duplicates]]
    /\ UNCHANGED <<clock_now, store, prior_success, calls_made, faults, pc, tick, run, cur, hist, result>>

commit_call ==
    /\ pc = "idle"
    /\ store' = commit(store, conn).store
    /\ conn' = commit(store, conn).conn
    /\ call' = [op |-> "commit", args |-> [none |-> TRUE], raised |-> FALSE,
                ret |-> [none |-> TRUE]]
    /\ UNCHANGED <<clock_now, prior_success, calls_made, faults, pc, tick, run, cur, hist, result>>

rollback_call ==
    /\ pc = "idle"
    /\ store' = rollback(store, conn, store).store
    /\ conn' = rollback(store, conn, store).conn
    /\ call' = [op |-> "rollback", args |-> [none |-> TRUE], raised |-> FALSE,
                ret |-> [none |-> TRUE]]
    /\ UNCHANGED <<clock_now, prior_success, calls_made, faults, pc, tick, run, cur, hist, result>>

StoreNext ==
    \/ StoreAdvanceClock
    \/ \E snapshot_id \in StoreSnapshotIds, range \in StoreRanges,
          status \in {"success", "error"} :
          insert_call_log_call(snapshot_id, range, status)
    \/ \E snapshot_id \in StoreSnapshotIds, range \in StoreRanges, rows \in RowCounts :
          ingest_rows_page_call(snapshot_id, range, rows)
    \/ commit_call
    \/ rollback_call

(* A fresh database, no tick in progress. *)
ComponentInit ==
    /\ clock_now = Instants[1]
    /\ store = EmptyStore
    /\ conn = EmptyStore
    /\ prior_success = 0
    /\ calls_made = 0
    /\ faults = 0
    /\ pc = "idle"
    /\ tick = NoTick
    /\ run = NoRun
    /\ cur = NoCur
    /\ hist = NewHist(EmptyStore)
    /\ result = NoResult
    /\ call = NoCall

StoreSpec == ComponentInit /\ [][StoreNext]_vars

----------------------------------------------------------------------------
(* The pure functions called on their own, as the unit tests call them.    *)

(* Times of day around the ends of the windows of the time policy. *)
PolicyTimes == {0, 30 * 60 - 1, 30 * 60, 30 * 60 + 1,
                5 * 3600 - 1, 5 * 3600, 5 * 3600 + 1,
                7 * 3600 - 1, 7 * 3600, 7 * 3600 + 1,
                9 * 3600 + 30 * 60 - 1, 9 * 3600 + 30 * 60, 9 * 3600 + 30 * 60 + 1,
                17 * 3600 + 30 * 60 - 1, 17 * 3600 + 30 * 60, 17 * 3600 + 30 * 60 + 1,
                20 * 3600 - 1, 20 * 3600, 20 * 3600 + 1,
                DaySeconds - 1}

PolicyZones == {"Asia/Seoul", "UTC", "naive"}

PolicyMicros == {0, 500000}

(* The datetimes handed to decide_collection: for an aware zone the value  *)
(* that shows the Seoul time t of day d, for no zone the wall clock t.     *)
DatetimeInputs ==
    {[wall |-> d * DaySeconds + t - (IF tz = "UTC" THEN UtcOffset("Asia/Seoul") ELSE 0),
      micro |-> u,
      tz |-> tz] : d \in {0, 1}, t \in PolicyTimes, u \in PolicyMicros, tz \in PolicyZones}

BudgetUsed == {0, 1, DAILY_LIMIT - REQUIRED_CALLS, DAILY_LIMIT - 1, DAILY_LIMIT, DAILY_LIMIT + 1}

BudgetRequired == {0, 1, REQUIRED_CALLS}

BudgetLimits == {-1, 0, REQUIRED_CALLS - 1, DAILY_LIMIT}

BudgetDates == {0, 1}

PayloadKeys == 1..3

PayloadValues == 1..2

PayloadItems == [key : PayloadKeys, value : PayloadValues]

(* Dicts of up to three items, in every insertion order. *)
PayloadInputs ==
    {p \in UNION {[1..n -> PayloadItems] : n \in 0..3} :
        \A i, j \in 1..Len(p) : i # j => p[i].key # p[j].key}

decide_collection_call(now) ==
    /\ pc = "idle"
    /\ LET r == decide_collection_datetime(now)
       IN  call' = [op |-> "decide_collection",
                    args |-> [now |-> now],
                    raised |-> r.raised,
                    ret |-> [should_collect |-> r.should_collect,
                             interval_seconds |-> r.interval_seconds,
                             time_bucket |-> r.time_bucket]]
    /\ UNCHANGED <<clock_now, store, conn, prior_success, calls_made, faults, pc, tick, run, cur, hist, result>>

check_budget_call(today, used_calls_today, required_calls, daily_limit) ==
    /\ pc = "idle"
    /\ call' = [op |-> "check_budget",
                args |-> [today |-> today, used_calls_today |-> used_calls_today,
                          required_calls |-> required_calls, daily_limit |-> daily_limit],
                raised |-> FALSE,
                ret |-> check_budget(today, used_calls_today, required_calls, daily_limit)]
    /\ UNCHANGED <<clock_now, store, conn, prior_success, calls_made, faults, pc, tick, run, cur, hist, result>>

compute_payload_hash_call(raw_payload) ==
    /\ pc = "idle"
    /\ call' = [op |-> "compute_payload_hash",
                args |-> [raw_payload |-> raw_payload],
                raised |-> FALSE,
                ret |-> [payload_hash |-> compute_payload_hash(raw_payload)]]
    /\ UNCHANGED <<clock_now, store, conn, prior_success, calls_made, faults, pc, tick, run, cur, hist, result>>

PureNext ==
    \/ \E now \in DatetimeInputs : decide_collection_call(now)
    \/ \E today \in BudgetDates, used_calls_today \in BudgetUsed,
          required_calls \in BudgetRequired, daily_limit \in BudgetLimits :
          check_budget_call(today, used_calls_today, required_calls, daily_limit)
    \/ \E raw_payload \in PayloadInputs : compute_payload_hash_call(raw_payload)

PureSpec == ComponentInit /\ [][PureNext]_vars

(* The Asia/Seoul time of day of an aware datetime, to the second. *)
SeoulTimeOfDay(now) ==
    (now.wall + UtcOffset("Asia/Seoul") - UtcOffset(now.tz)) % DaySeconds

DecideCollectionReturned ==
    /\ call.op = "decide_collection"
    /\ call.args.now.tz # "naive"

InWindow(now, from, to) == from <= SeoulTimeOfDay(now) /\ SeoulTimeOfDay(now) <= to

(* C24: for an aware instant whose Seoul time of day is in [07:00:00,      *)
(* 09:30:00] or [17:30:00, 20:00:00], ends included, decide_collection     *)
(* returns should_collect true and interval 120, bucket morning for the    *)
(* first window and evening for the second.                                *)
C24_CommuteWindows ==
    DecideCollectionReturned =>
        LET now == call.args.now
        IN  /\ InWindow(now, 7 * 3600, 9 * 3600 + 30 * 60) =>
                 /\ ~call.raised
                 /\ call.ret = [should_collect |-> TRUE, interval_seconds |-> 120,
                                time_bucket |-> "morning"]
            /\ InWindow(now, 17 * 3600 + 30 * 60, 20 * 3600) =>
                 /\ ~call.raised
                 /\ call.ret = [should_collect |-> TRUE, interval_seconds |-> 120,
                                time_bucket |-> "evening"]

(* decide_collection was given 09:30:00 Seoul time as a UTC value. *)
C24_Witness ==
    /\ DecideCollectionReturned
    /\ call.args.now.tz = "UTC"
    /\ SeoulTimeOfDay(call.args.now) = 9 * 3600 + 30 * 60
    /\ call.ret.time_bucket = "morning"

(* C25: for an aware instant whose Seoul time of day is in [00:30:00,      *)
(* 05:00:00], ends included, decide_collection returns should_collect      *)
(* false, bucket night and a positive interval that is the exact time in   *)
(* seconds from the instant to the next 05:00:01.                          *)
C25_NightWindow ==
    DecideCollectionReturned =>
        LET now == call.args.now
        IN  InWindow(now, 30 * 60, 5 * 3600) =>
               /\ ~call.raised
               /\ ~call.ret.should_collect
               /\ call.ret.time_bucket = "night"
               /\ call.ret.interval_seconds > 0
               /\ call.ret.interval_seconds * 1000
                    = (5 * 3600 + 1 - SeoulTimeOfDay(now)) * 1000 - now.micro \div 1000

(* C26: for an aware instant outside the three windows decide_collection   *)
(* returns should_collect true, interval 900 and bucket normal; every      *)
(* instant is in exactly one of the four buckets.                          *)
C26_NormalElsewhere ==
    DecideCollectionReturned =>
        LET now     == call.args.now
            night   == InWindow(now, 30 * 60, 5 * 3600)
            morning == InWindow(now, 7 * 3600, 9 * 3600 + 30 * 60)
            evening == InWindow(now, 17 * 3600 + 30 * 60, 20 * 3600)
        IN  /\ ~call.raised
            /\ ~(night \/ morning \/ evening) =>
                  call.ret = [should_collect |-> TRUE, interval_seconds |-> 900,
                              time_bucket |-> "normal"]
            /\ call.ret.time_bucket \in {"night", "morning", "evening", "normal"}
            /\ call.ret.time_bucket = "night" <=> night
            /\ call.ret.time_bucket = "morning" <=> morning
            /\ call.ret.time_bucket = "evening" <=> evening
            /\ call.ret.time_bucket = "normal" <=> ~(night \/ morning \/ evening)

(* decide_collection was given 05:00:01, the second after the night. *)
C26_Witness ==
    /\ DecideCollectionReturned
    /\ SeoulTimeOfDay(call.args.now) = 5 * 3600 + 1
    /\ call.args.now.micro > 0
    /\ call.ret.time_bucket = "normal"

SameMapping(p, q) ==
    {<<p[i].key, p[i].value>> : i \in 1..Len(p)} = {<<q[i].key, q[i].value>> : i \in 1..Len(q)}

SameKeys(p, q) == {p[i].key : i \in 1..Len(p)} = {q[i].key : i \in 1..Len(q)}

(* C30: compute_payload_hash gives the same hash to every ordering of the  *)
(* keys of a mapping, different hashes to mappings of the same keys that   *)
(* differ in a value, and always 64 hex characters, for the empty mapping  *)
(* too.                                                                    *)
C30_PayloadHash ==
    call.op = "compute_payload_hash" =>
        LET p == call.args.raw_payload
            h == call.ret.payload_hash
        IN  /\ ~call.raised
            /\ Len(h) = 64
            /\ \A i \in 1..Len(h) : h[i] \in 0..15
            /\ Len(compute_payload_hash(<<>>)) = 64
            /\ \A q \in PayloadInputs :
                  /\ SameMapping(p, q) => compute_payload_hash(q) = h
                  /\ SameKeys(p, q) /\ ~SameMapping(p, q) => compute_payload_hash(q) # h

(* A payload of three items was hashed whose keys came in descending order. *)
C30_Witness ==
    /\ call.op = "compute_payload_hash"
    /\ Len(call.args.raw_payload) = 3
    /\ call.args.raw_payload[1].key > call.args.raw_payload[2].key
    /\ call.args.raw_payload[2].key > call.args.raw_payload[3].key

(* C28: when the ledger write that records a failed page as error fails    *)
(* itself, the failure is swallowed: the page is rolled back and reported  *)
(* as an error page with the message of the original failure, and the run  *)
(* goes on with the next range.                                            *)
C28_ErrorLogFailureSwallowed ==
    cur.log_failed /\ pc # "rollback" =>
        LET n == IF tick.arg_is_none THEN run.decided_page_count
                 ELSE Len(tick.arg_list)
        IN  /\ Len(run.pages_result) = Len(hist.fetches)
            /\ LastPage.start = cur.start /\ LastPage.end = cur.end
            /\ LastPage.status = "error"
            /\ LastPage.error = cur.error
            /\ cur.error \in {"fetch_failed", "ingest_failed", "commit_failed"}
            /\ ~LastFetch.ok <=> cur.error = "fetch_failed"
            /\ hist.rollback_calls = Cardinality(ErrorPagesSoFar)
            /\ store = hist.store_at_page
            /\ conn = store
            /\ IF Len(hist.fetches) < n
               THEN pc = "fetch"
               ELSE pc \in {"aggregate", "return", "idle"}

(* The ingest of a page failed, the error entry could not be written, the  *)
(* page is reported with the ingest failure and the next fetch is due.     *)
C28_Witness ==
    /\ pc = "fetch"
    /\ cur.log_failed
    /\ Len(hist.fetches) >= 1
    /\ LastPage.status = "error"
    /\ LastPage.error = "ingest_failed"

(* C21: recording a ledger entry is an upsert keyed by (snapshot_id,       *)
(* page_start, page_end): recording a key again does not raise, leaves one *)
(* entry for the key and the number of entries as it was, and the entry's  *)
(* status and called_at are those of the latest record.                    *)
C21_RecordIsIdempotentUpsert ==
    [][call'.op = "insert_call_log" =>
         LET a   == call'.args
             old == {e \in conn.ledger :
                       SameKey(e, a.snapshot_id, a.page_start, a.page_end)}
             new == {e \in conn'.ledger :
                       SameKey(e, a.snapshot_id, a.page_start, a.page_end)}
         IN  /\ ~call'.raised
             /\ Cardinality(new) = 1
             /\ \A e \in new : e.status = a.status /\ e.called_at = a.called_at
             /\ old # {} => Cardinality(conn'.ledger) = Cardinality(conn.ledger)
             /\ old = {} => Cardinality(conn'.ledger) = Cardinality(conn.ledger) + 1
             /\ conn'.ledger \ new = conn.ledger \ old]_vars

(* A committed error entry has been recorded again, later, as success,     *)
(* next to an entry of another range.                                      *)
C21_Witness ==
    /\ call.op = "insert_call_log"
    /\ call.args.status = "success"
    /\ Cardinality(store.ledger) = 2
    /\ Cardinality(conn.ledger) = 2
    /\ \E e \in store.ledger :
          /\ SameKey(e, call.args.snapshot_id, call.args.page_start, call.args.page_end)
          /\ e.status = "error"
          /\ e.called_at < call.args.called_at

(* C22: the call_date of every durable ledger entry is the Asia/Seoul      *)
(* calendar date of its called_at, also after the entry was recorded again *)
(* with a later called_at.                                                 *)
C22_CallDateIsDateOfCalledAt ==
    \A e \in store.ledger : e.call_date = DateOf(e.called_at)

(* C23: ingesting again a page whose rows are all committed inserts        *)
(* nothing: inserted_rows is 0, skipped_duplicates is the row count and    *)
(* the stored rows are the same.                                           *)
C23_ReingestInsertsNothing ==
    [][call'.op = "ingest_rows_page" =>
         LET a      == call'.args
             stored == {r \in store.raw : /\ r.snapshot_id = a.snapshot_id
                                          /\ r.page_start = a.page_start
                                          /\ r.page_end = a.page_end}
         IN  conn = store /\ {r.payload : r \in stored} = 1..a.rows =>
                /\ ~call'.raised
                /\ call'.ret.attempted_rows = a.rows
                /\ call'.ret.inserted_rows = 0
                /\ call'.ret.skipped_duplicates = a.rows
                /\ conn'.raw = conn.raw
                /\ store' = store]_vars

(* A committed page with rows has been ingested again at a later time.     *)
C23_Witness ==
    /\ call.op = "ingest_rows_page"
    /\ call.args.rows >= 1
    /\ call.ret.inserted_rows = 0
    /\ call.ret.skipped_duplicates = call.args.rows
    /\ conn = store
    /\ \E r \in store.raw :
          /\ r.snapshot_id = call.args.snapshot_id
          /\ r.page_start = call.args.page_start
          /\ r.page_end = call.args.page_end
          /\ r.created_at < clock_now

(* C29: a zone-naive now is rejected: decide_collection raises instead of  *)
(* returning a decision, and run_orchestrator_once given a zone-naive now  *)
(* fails before any last-snapshot lookup, budget check, fetch or store     *)
(* write; no tick ever goes on with a zone-naive now.                      *)
C29_NaiveNowRejected ==
    [][/\ tick'.now_tz # "naive"
       /\ call'.raised /\ call' # call =>
             /\ call'.op = "run_orchestrator_once"
             /\ call'.args.now_tz = "naive"
             /\ LET now == [wall |-> clock_now, micro |-> 0, tz |-> call'.args.now_tz]
                IN  /\ decide_collection_datetime(now).raised
                    /\ decide_collection_datetime(now).time_bucket = "none"
             /\ UNCHANGED <<clock_now, store, conn, prior_success, calls_made, faults,
                            pc, tick, run, cur, hist, result>>]_vars

(* After a tick that executed and stored rows, a tick given a zone-naive   *)
(* now has raised.                                                         *)
C29_Witness ==
    /\ call.op = "run_orchestrator_once"
    /\ call.raised
    /\ call.args.now_tz = "naive"
    /\ pc = "idle"
    /\ result.executed
    /\ store.raw # {}

(* C31: a failure inside the runner does not change the verdict of the     *)
(* orchestrator: when all three gates pass the tick returns executed with  *)
(* reason executed whether the run ended ok, partial or error, and in      *)
(* every result executed holds exactly when the reason is executed and     *)
(* exactly when snapshot_id is not null.                                   *)
C31_VerdictIgnoresRunnerStatus ==
    /\ result.executed <=> result.reason = "executed"
    /\ result.executed <=> result.snapshot_id # None
    /\ Returned /\ TimePolicyPasses /\ IntervalPasses /\ BudgetPasses =>
          /\ result.executed
          /\ result.reason = "executed"
          /\ result.snapshot_id = run.snapshot_id
          /\ run.snapshot_result.status \in {"ok", "partial", "error"}
    /\ Returned /\ ~(TimePolicyPasses /\ IntervalPasses /\ BudgetPasses) =>
          /\ ~result.executed
          /\ result.reason \in {"time_policy_blocked", "interval_not_elapsed", "budget_blocked"}

(* A tick has returned executed from a run in which every page failed. *)
C31_Witness ==
    /\ Returned
    /\ result.executed
    /\ run.snapshot_result.status = "error"
    /\ run.snapshot_result.errors_total = 2

(* C32: after a tick has executed at instant t, a later tick at t2 that    *)
(* the time policy lets through and with t2 - t below the interval of the  *)
(* bucket of t2 returns interval_not_elapsed, whatever the run did, also   *)
(* when every page failed or no row was inserted.  Stated for the tick     *)
(* that follows an executed one.                                           *)
C32_IntervalAfterEveryExecutedTick ==
    [][(/\ pc = "idle"
        /\ tick.now # None
        /\ result.executed
        /\ pc' # "idle" \/ result' # result
        /\ decide_collection(clock_now).should_collect
        /\ clock_now - tick.now < decide_collection(clock_now).interval_seconds)
       => /\ pc' = "idle"
          /\ result'.reason = "interval_not_elapsed"]_vars

(* C33: in every executed tick, whatever call_ranges is, the runner makes  *)
(* at most as many remote fetches as the remaining_calls the budget gate   *)
(* computed, so no run takes the success entries of a date past the daily  *)
(* limit.                                                                  *)
C33_FetchesWithinRemainingCalls ==
    /\ run.snapshot_id # None =>
          Len(hist.fetches) <= check_budget(DateOf(tick.now), tick.used_calls_today,
                                            REQUIRED_CALLS, DAILY_LIMIT).remaining_calls
    /\ \A d \in Dates : SuccessCount(store.ledger, d) <= DAILY_LIMIT

(* The fetches of the run that returned. *)
SucceededFetches == {i \in 1..Len(hist.fetches) : hist.fetches[i].ok}

(* C34: when the run is done, every page whose remote fetch returned has a *)
(* durable success ledger entry, whether its ingest and its commit went    *)
(* through or not, so the date's success count has grown by at least the   *)
(* number of remote calls that succeeded.                                  *)
C34_SucceededFetchesAreCounted ==
    RunDone =>
        /\ \A i \in SucceededFetches :
              \E e \in store.ledger :
                  /\ SameKey(e, run.snapshot_id, hist.fetches[i].start, hist.fetches[i].end)
                  /\ e.status = "success"
        /\ SuccessCount(store.ledger, DateOf(tick.now))
              >= SuccessCount(hist.store_at_tick.ledger, DateOf(tick.now))
                   + Cardinality(SucceededFetches)

(* C35: in the result of the run every error page has attempted_rows,     *)
(* inserted_rows and skipped_duplicates 0, also when it was the commit     *)
(* that failed, so inserted_total counts only rows that are in the store.  *)
C35_ErrorPagesCountNothing ==
    RunDone =>
        /\ \A i \in ErrorPages :
              /\ run.snapshot_result.pages[i].attempted_rows = 0
              /\ run.snapshot_result.pages[i].inserted_rows = 0
              /\ run.snapshot_result.pages[i].skipped_duplicates = 0
        /\ run.snapshot_result.inserted_total
              = Cardinality(store.raw) - Cardinality(hist.store_at_tick.raw)

(* C36: a tick that executes right after an executed tick gets a          *)
(* snapshot_id different from and greater than that of the earlier one,    *)
(* so the two runs never write under the same key.                         *)
C36_ExecutedTicksGetIncreasingIds ==
    [][(/\ pc = "idle" /\ tick.now # None /\ result.executed
        /\ pc' # "idle")
       => run'.snapshot_id > result.snapshot_id]_vars

-----------------------------------------------------------------------------
(* Two invocations of main on the same store.  Nothing in main or in       *)
(* run_orchestrator_once takes a lock, so a second process may start while *)
(* the first is inside its run.  The first invocation is the tick in       *)
(* progress; the second, a dynamic run started a second later on a         *)
(* connection of its own, is kept in call, and each of its pages reaches   *)
(* the store at its commit.                                                *)

(* main lines 141-164 of the second process, begun before the first has    *)
(* committed a page: it reads used_calls_today and the last snapshot from  *)
(* the durable store and passes the gates.                                 *)
other_run_orchestrator_once ==
    /\ pc # "idle"
    /\ call = NoCall
    /\ store = hist.store_at_tick
    /\ LET now == clock_now + 1
           used_calls_today == get_used_calls_today(store.ledger, prior_success, now)
           last_snapshot_at == get_last_snapshot_at(store.raw)
           gates == OrchestratorGates(now, last_snapshot_at, used_calls_today)
       IN  call' = [op |-> "run_orchestrator_once",
                    args |-> [now |-> now, used_calls_today |-> used_calls_today],
                    raised |-> FALSE,
                    ret |-> [executed |-> gates.executed, reason |-> gates.reason,
                             snapshot_id |-> gates.snapshot_id, pages |-> 0]]
    /\ UNCHANGED <<clock_now, store, conn, prior_success, calls_made, faults, pc, tick, run, cur, hist, result>>

(* A page of the second process's run (runner 75-99, 194-231): the fetch   *)
(* returns an empty page, the success entry is written and the commit      *)
(* makes it durable, so the first process's connection sees it too.  The   *)
(* reported total is over the threshold: the run has four pages.           *)
other_page ==
    /\ call.op = "run_orchestrator_once"
    /\ call.ret.executed
    /\ call.ret.pages < REQUIRED_CALLS
    /\ LET page_start == call.ret.pages * 1000
           page_end == page_start + 999
       IN  /\ store' = [store EXCEPT !.ledger =
                          insert_call_log(@, call.ret.snapshot_id, page_start, page_end,
                                          call.args.now, "success")]
           /\ conn' = [conn EXCEPT !.ledger =
                          insert_call_log(@, call.ret.snapshot_id, page_start, page_end,
                                          call.args.now, "success")]
    /\ call' = [call EXCEPT !.ret.pages = @ + 1]
    /\ UNCHANGED <<clock_now, prior_success, calls_made, faults, pc, tick, run, cur, hist, result>>

OverlapNext ==
    \/ /\ call = NoCall
       /\ \E call_ranges \in RangeInputs : run_orchestrator_once("Asia/Seoul", call_ranges)
    \/ RunnerNext
    \/ other_run_orchestrator_once
    \/ other_page

OverlapSpec == LongInit /\ [][OverlapNext]_vars

(* C37: when a second invocation has begun while the first was in its run  *)
(* and before it committed a page, the success entries of the date still   *)
(* never number more than the daily limit.                                 *)
C37_OverlapStaysWithinLimit ==
    call.op = "run_orchestrator_once" /\ call.ret.executed =>
        SuccessCount(store.ledger, DateOf(call.args.now)) <= DAILY_LIMIT

====
